---- MODULE Spec2Model ----
(***************************************************************************)
(* Model of mp709.py: the MP709 USB relay protocol client (class mp709),   *)
(* the fleet controller (class relaysControl) and the command line entry   *)
(* point main(argv).  The program is sequential; pc is the position of its *)
(* single thread, caller the method that called the running getInfo,       *)
(* getPort or setPort.  Every control transfer is one step.                *)
(***************************************************************************)
EXTENDS Integers, Sequences, FiniteSets, TLC

\* ---------------------------------------------------------------- bounds
MaxDevices == 2
MaxOpts == 3
MaxFaults == 1

\* ------------------------------------------------------ program constants
GET_REPORT == 1
SET_REPORT == 9
HID_REQ_TO_HOST == 161
HID_REQ_TO_DEV == 33
REPORT_TYPE_FEATURE == 768
REPORT_LEN == 8
VENDOR_ID == 5824
PRODUCT_ID == 1503
portOn == 0
portOff == 25
DEFAULT_VERBOSE == 30
VERBOSE_STEP == 10
INFO == 20
EXIT_USAGE == 2
EXIT_VERSION == 0
EXIT_FAILED == 3

relayState == [off |-> 0, on |-> 1, noChange |-> 3, toggle |-> 4]

GET_INFO == <<29, 0, 0, 0, 0, 0, 0>>
SET_PORT_ON == <<231, 0, 0, 0, 0, 0, 0>>
SET_PORT_OFF == <<231, 25, 0, 0, 0, 0, 0>>
GET_PORT == <<126, 0, 0, 0, 0, 0, 0>>

\* setState's table of state names
states == [on |-> relayState.on, off |-> relayState.off,
           noChange |-> relayState.noChange, toggle |-> relayState.toggle]

\* ------------------------------------------------------------ environment
\* Values of -s and -i tried on the command line.  The long forms --state
\* and --id are declared to getopt without "=", so they carry the value "".
StateArgs == {"on", "off", "noChange", "toggle", "blink", ""}
IdArgs == {"0", "20", "x", ""}

\* int(a) of setId, for the strings int accepts; int raises ValueError on
\* the others.
IsNumber(a) == a \in {"0", "20"}

int(a) ==
  CASE a = "0" -> 0
    [] a = "20" -> 20

\* The info report of a device: report id, family, version (low byte
\* first), id (most significant byte first).
InfoReport(family, version, ident) ==
  <<0, family, version % 256, version \div 256,
    (ident \div 16777216) % 256, (ident \div 65536) % 256,
    (ident \div 256) % 256, ident % 256>>

\* The descriptors the bus may enumerate: two foreign devices and MP709
\* boards with the ids 10, 20 and 16777236 (= 0x01000014, low byte 20).
Foreign ==
  { [idVendor |-> 1133, idProduct |-> PRODUCT_ID, info |-> InfoReport(0, 0, 0)],
    [idVendor |-> VENDOR_ID, idProduct |-> 1500, info |-> InfoReport(0, 0, 0)] }

Boards ==
  { [idVendor |-> VENDOR_ID, idProduct |-> PRODUCT_ID, info |-> InfoReport(9, 258, i)]
      : i \in {10, 20, 16777236} }

Descriptors == Foreign \cup Boards

\* The lists of at most n devices, each descriptor being that of one
\* physical device and so enumerated once.
SeqsUpTo(S, n) ==
  { s \in UNION { [1..k -> S] : k \in 0..n } :
      \A i, j \in DOMAIN s : i # j => s[i] # s[j] }

\* Lengths of a feature report the device may answer with.
ReadLens == {REPORT_LEN, 5, 2}

\* Outcomes of mp709.open: "ok" or the call of open that raises.
OpenOutcomes == {"ok", "open", "setConfiguration", "claimInterface", "setAltInterface"}

VARIABLES
  devices,    \* usb.busses(): the descriptors in enumeration order
  relay,      \* relay[d]: the relay of device d is on (a foreign device has none)
  report,     \* report[d]: the command device d received last (zeros: none)
  claimed,    \* claimed[d]: this process has claimed the interface of d
  released,   \* released[d]: number of releaseInterface calls on d
  faults,     \* number of failed calls and short responses so far
  opt,        \* main's loop: the option <<o, a>> being processed
  nopts,      \* main's loop: number of options processed
  state,      \* relaysControl.state
  id,         \* relaysControl.id
  verbose,    \* main's verbose
  pc,         \* position of the program
  caller,     \* the method that called getInfo / getPort / setPort
  dev,        \* enumerateRelays: index of the device being examined
  handle,     \* handle[d]: the mp709 object of d holds a handle
  object,     \* object[d]: "none", "live", "dropped" or "finalized"
  relays,     \* the list enumerateRelays builds (indexes into devices)
  r,          \* controlRelays: index into relays
  arg,        \* the state argument of the running setPort
  exc,        \* the exception that ended the program, "none" if none
  exitCode,   \* the process exit code, -1 while running
  trace       \* history: method calls and control transfers, in order

vars == <<devices, relay, report, claimed, released, faults, opt, nopts, state, id, verbose,
          pc, caller, dev, handle, object, relays, r, arg, exc, exitCode, trace>>

envVars == <<devices, relay, report, claimed, released, faults>>
ctlVars == <<opt, nopts, state, id, verbose>>
objVars == <<handle, object, relays>>

Devs == 1..Len(devices)

\* ----------------------------------------------------------- trace events
Call(op, d, from, a) == [op |-> op, dev |-> d, caller |-> from, arg |-> a]

Return(op, d, from, v) ==
  [op |-> "return", of |-> op, dev |-> d, caller |-> from, val |-> v]

ControlMsg(d, by, from, requestType, request, buffer, size, ok) ==
  [op |-> "controlMsg", dev |-> d, by |-> by, caller |-> from,
   requestType |-> requestType, request |-> request, buffer |-> buffer,
   size |-> size, value |-> REPORT_TYPE_FEATURE, ok |-> ok]

IsXfer(e) == e.op = "controlMsg"

\* ------------------------------------------------------------------ Init
Init ==
  /\ devices \in SeqsUpTo(Descriptors, MaxDevices)
  /\ relay \in { f \in [1..Len(devices) -> BOOLEAN] :
                    \A d \in 1..Len(devices) : devices[d] \in Foreign => ~f[d] }
  /\ report = [d \in 1..Len(devices) |-> <<0, 0, 0, 0, 0, 0, 0>>]
  /\ claimed = [d \in 1..Len(devices) |-> FALSE]
  /\ released = [d \in 1..Len(devices) |-> 0]
  /\ faults = 0
  /\ opt = <<"", "">>
  /\ nopts = 0
  /\ state = relayState.noChange
  /\ id = 0
  /\ verbose = DEFAULT_VERBOSE
  /\ pc = "getopt"
  /\ caller = "none"
  /\ dev = 0
  /\ handle = [d \in 1..Len(devices) |-> FALSE]
  /\ object = [d \in 1..Len(devices) |-> "none"]
  /\ relays = <<>>
  /\ r = 0
  /\ arg = FALSE
  /\ exc = "none"
  /\ exitCode = -1
  /\ trace = <<>>

\* --------------------------------------------------------- main(argv)
\* sys.exit(code), or an exception e reaching main's handler: the program
\* ends and every mp709 object becomes unreachable.
Exit(code, e) ==
  /\ pc' = "exit"
  /\ exitCode' = code
  /\ exc' = e

\* getopt.getopt(argv, ...): an unknown option raises GetoptError, which
\* main answers with usage(), and usage() ends in sys.exit(2).
Getopt ==
  /\ pc = "getopt"
  /\ \E known \in BOOLEAN :
       IF known
         THEN /\ pc' = "opts"
              /\ UNCHANGED <<exc, exitCode>>
         ELSE Exit(EXIT_USAGE, "GetoptError")
  /\ UNCHANGED <<envVars, ctlVars, objVars, caller, dev, r, arg, trace>>

\* -h | --help: usage() prints and calls sys.exit(2); SystemExit is re-raised.
OptHelp ==
  /\ pc = "opts"
  /\ nopts < MaxOpts
  /\ opt' = <<"-h", "">>
  /\ nopts' = nopts + 1
  /\ Exit(EXIT_USAGE, "SystemExit")
  /\ UNCHANGED <<envVars, state, id, verbose, objVars, caller, dev, r, arg, trace>>

\* -V | --version: version() prints and calls sys.exit(0).
OptVersion ==
  /\ pc = "opts"
  /\ nopts < MaxOpts
  /\ opt' = <<"-V", "">>
  /\ nopts' = nopts + 1
  /\ Exit(EXIT_VERSION, "SystemExit")
  /\ UNCHANGED <<envVars, state, id, verbose, objVars, caller, dev, r, arg, trace>>

\* relaysControl.setState(state_in): the state named, or KeyError, which
\* main's handler turns into sys.exit(3).
setState_default(state_in) ==
  /\ state' = IF state_in \in DOMAIN states THEN states[state_in] ELSE relayState.noChange
  /\ UNCHANGED <<pc, exc, exitCode>>

setState(state_in) ==
  IF state_in \in DOMAIN states
    THEN /\ state' = states[state_in]
         /\ UNCHANGED <<pc, exc, exitCode>>
    ELSE /\ state' = state
         /\ Exit(EXIT_FAILED, "KeyError")

\* -s | --state a
OptState ==
  /\ pc = "opts"
  /\ nopts < MaxOpts
  /\ nopts' = nopts + 1
  /\ \E a \in StateArgs :
       /\ opt' = <<"-s", a>>
       /\ setState(a)
  /\ UNCHANGED <<envVars, id, verbose, objVars, caller, dev, r, arg, trace>>

\* relaysControl.setId(id): int(id), or the ValueError of int.
setId(a) ==
  IF IsNumber(a)
    THEN /\ id' = int(a)
         /\ UNCHANGED <<pc, exc, exitCode>>
    ELSE /\ id' = id
         /\ Exit(EXIT_FAILED, "ValueError")

\* -i | --id a
OptId ==
  /\ pc = "opts"
  /\ nopts < MaxOpts
  /\ nopts' = nopts + 1
  /\ \E a \in IdArgs :
       /\ opt' = <<"-i", a>>
       /\ setId(a)
  /\ UNCHANGED <<envVars, state, verbose, objVars, caller, dev, r, arg, trace>>

\* -v | --verbose
OptVerbose ==
  /\ pc = "opts"
  /\ nopts < MaxOpts
  /\ opt' = <<"-v", "">>
  /\ nopts' = nopts + 1
  /\ verbose' = IF verbose - VERBOSE_STEP > 0 THEN verbose - VERBOSE_STEP ELSE 0
  /\ UNCHANGED <<envVars, state, id, objVars, pc, caller, dev, r, arg, exc, exitCode, trace>>

\* The options are used up (the loop's variables are dead from here on):
\* log.setLevel(verbose); control.main(), which starts enumerateRelays with
\* the first device.
RunMain ==
  /\ pc = "opts"
  /\ pc' = "enumerateRelays"
  /\ dev' = 1
  /\ opt' = <<"", "">>
  /\ nopts' = 0
  /\ UNCHANGED <<envVars, state, id, verbose, objVars, caller, r, arg, exc, exitCode, trace>>

\* ------------------------------------------------------------- the device
\* The USB layer lets a call succeed (ok) or fail; it fails, or answers with
\* a short report, at most MaxFaults times in one run.
Outcome(ok) ==
  /\ ~ok => faults < MaxFaults
  /\ faults' = IF ok THEN faults ELSE faults + 1

\* What a SET_REPORT write of buffer does to device d: the device keeps the
\* command to answer the next GET_REPORT, and 0xE7 switches the relay (second
\* byte 0x00 = on, 0x19 = off, the codes getPort compares with).
DeviceWrite(d, buffer) ==
  /\ report' = [report EXCEPT ![d] = buffer]
  /\ relay' = IF buffer[1] = SET_PORT_ON[1]
                THEN [relay EXCEPT ![d] = (buffer[2] = portOn)]
                ELSE relay

\* The 8-byte feature report device d answers a GET_REPORT with.
DeviceReport(d) ==
  IF report[d] = GET_INFO
    THEN devices[d].info
    ELSE LET p == IF relay[d] THEN portOn ELSE portOff
         IN  <<report[d][1], p, p, 0, 0, 0, 0, 0>>

\* ------------------------------------------------------------ class mp709
\* __init__'s identity test.
WrongIdentity_and(device) ==
  (device.idVendor # VENDOR_ID) /\ (device.idProduct # PRODUCT_ID)

WrongIdentity(device) ==
  (device.idVendor # VENDOR_ID) \/ (device.idProduct # PRODUCT_ID)

\* getInfo's decoding of the response (buffer[k] of the source is b[k+1]).
decodeInfo_swapped(b) ==
  [family |-> b[2],
   version |-> b[4] + b[3] * 256,
   id |-> b[8] + b[6] * 256 + b[7] * 65536 + b[5] * 16777216]

decodeInfo(b) ==
  [family |-> b[2],
   version |-> b[3] + b[4] * 256,
   id |-> b[8] + b[7] * 256 + b[6] * 65536 + b[5] * 16777216]

\* getPort's decoding of the response.
decodePort_firstByte(b) == b[2] = portOn

decodePort(b) == (b[2] = b[3]) /\ (b[2] = portOn)

\* The highest index getInfo and getPort read in the response; a shorter
\* response raises IndexError.
InfoIndex == 7
PortIndex == 2

\* __init__'s id test on the info getInfo returned.
IdMatches_inverted(info) == info["id"] # id

IdMatches(info) == info["id"] = id

\* The device the running method works on.
Cur == IF caller = "__init__" THEN dev ELSE relays[r]

\* close(): releaseInterface when a handle is held, then the handle is
\* dropped.
close_keepHandle(d) ==
  /\ released' = [released EXCEPT ![d] = IF handle[d] THEN @ + 1 ELSE @]
  /\ claimed' = [claimed EXCEPT ![d] = IF handle[d] THEN FALSE ELSE @]
  /\ handle' = handle

close(d) ==
  /\ released' = [released EXCEPT ![d] = IF handle[d] THEN @ + 1 ELSE @]
  /\ claimed' = [claimed EXCEPT ![d] = IF handle[d] THEN FALSE ELSE @]
  /\ handle' = [handle EXCEPT ![d] = FALSE]

\* An exception e leaves the running method.  Inside __str__ it is raised
\* while the logging handler formats the record: the handler reports it and
\* log.info returns, so controlRelays goes on with the next relay.  Inside
\* __init__ (e is not ValueError) and inside controlRelays it reaches main's
\* handler: sys.exit(3); the object under construction is dropped.
Raise_retry(e) ==
  UNCHANGED <<pc, r, caller, exc, exitCode, object>>

Raise_continue(e) ==
  IF caller = "__str__"
    THEN /\ pc' = "controlRelays"
         /\ r' = r + 1
         /\ caller' = "controlRelays"
         /\ UNCHANGED <<exc, exitCode, object>>
    ELSE IF caller = "controlRelays"
           THEN /\ pc' = "log.info"
                /\ UNCHANGED <<r, caller, exc, exitCode, object>>
           ELSE /\ Exit(EXIT_FAILED, e)
                /\ object' = [object EXCEPT ![dev] = "dropped"]
                /\ UNCHANGED <<r, caller>>

Raise_passOver(e) ==
  IF caller = "__str__"
    THEN /\ pc' = "controlRelays"
         /\ r' = r + 1
         /\ caller' = "controlRelays"
         /\ UNCHANGED <<exc, exitCode, object>>
    ELSE IF caller = "__init__"
           THEN /\ pc' = "enumerateRelays"
                /\ caller' = "none"
                /\ object' = [object EXCEPT ![dev] = "dropped"]
                /\ UNCHANGED <<r, exc, exitCode>>
           ELSE /\ Exit(EXIT_FAILED, e)
                /\ UNCHANGED <<r, caller, object>>

Raise(e) ==
  IF caller = "__str__"
    THEN /\ pc' = "controlRelays"
         /\ r' = r + 1
         /\ caller' = "controlRelays"
         /\ UNCHANGED <<exc, exitCode, object>>
    ELSE /\ Exit(EXIT_FAILED, e)
         /\ object' = IF caller = "__init__"
                        THEN [object EXCEPT ![dev] = "dropped"]
                        ELSE object
         /\ UNCHANGED <<r, caller>>

\* mp709(dev, self.id) up to and including open(), inside the loop of
\* enumerateRelays.  A wrong identity raises ValueError, which
\* enumerateRelays passes over: the object, which holds no handle, is gone.
Construct_prepend ==
  /\ pc = "enumerateRelays"
  /\ dev <= Len(devices)
  /\ IF WrongIdentity(devices[dev])
       THEN /\ object' = [object EXCEPT ![dev] = "finalized"]
            /\ dev' = dev + 1
            /\ UNCHANGED <<handle, claimed, relays, pc, caller, exc, exitCode, trace, faults>>
       ELSE \E o \in OpenOutcomes :
              /\ Outcome(o = "ok")
              /\ handle' = [handle EXCEPT ![dev] = (o # "open")]
              /\ claimed' = [claimed EXCEPT ![dev] = (o \in {"ok", "setAltInterface"})]
              /\ IF o # "ok"
                   THEN /\ Exit(EXIT_FAILED, "USBError")
                        /\ object' = [object EXCEPT ![dev] = "dropped"]
                        /\ UNCHANGED <<dev, relays, caller, trace>>
                   ELSE /\ object' = [object EXCEPT ![dev] = "live"]
                        /\ UNCHANGED <<exc, exitCode>>
                        /\ IF id # 0
                             THEN /\ pc' = "getInfo.write"
                                  /\ caller' = "__init__"
                                  /\ trace' = Append(trace, Call("getInfo", dev, "__init__", FALSE))
                                  /\ UNCHANGED <<dev, relays>>
                             ELSE /\ relays' = <<dev>> \o relays
                                  /\ dev' = dev + 1
                                  /\ UNCHANGED <<pc, caller, trace>>
  /\ UNCHANGED <<devices, relay, report, released, ctlVars, r, arg>>

Construct ==
  /\ pc = "enumerateRelays"
  /\ dev <= Len(devices)
  /\ IF WrongIdentity(devices[dev])
       THEN /\ object' = [object EXCEPT ![dev] = "finalized"]
            /\ dev' = dev + 1
            /\ UNCHANGED <<handle, claimed, relays, pc, caller, exc, exitCode, trace, faults>>
       ELSE \E o \in OpenOutcomes :
              /\ Outcome(o = "ok")
              /\ handle' = [handle EXCEPT ![dev] = (o # "open")]
              /\ claimed' = [claimed EXCEPT ![dev] = (o \in {"ok", "setAltInterface"})]
              /\ IF o # "ok"
                   THEN /\ Exit(EXIT_FAILED, "USBError")
                        /\ object' = [object EXCEPT ![dev] = "dropped"]
                        /\ UNCHANGED <<dev, relays, caller, trace>>
                   ELSE /\ object' = [object EXCEPT ![dev] = "live"]
                        /\ UNCHANGED <<exc, exitCode>>
                        /\ IF id # 0
                             THEN /\ pc' = "getInfo.write"
                                  /\ caller' = "__init__"
                                  /\ trace' = Append(trace, Call("getInfo", dev, "__init__", FALSE))
                                  /\ UNCHANGED <<dev, relays>>
                             ELSE /\ relays' = Append(relays, dev)
                                  /\ dev' = dev + 1
                                  /\ UNCHANGED <<pc, caller, trace>>
  /\ UNCHANGED <<devices, relay, report, released, ctlVars, r, arg>>

\* getInfo: the SET_REPORT write of GET_INFO.
GetInfoWrite ==
  /\ pc = "getInfo.write"
  /\ \E ok \in BOOLEAN :
       /\ Outcome(ok)
       /\ trace' = Append(trace, ControlMsg(Cur, "getInfo", caller, HID_REQ_TO_DEV,
                                            SET_REPORT, GET_INFO, 0, ok))
       /\ IF ok
            THEN /\ DeviceWrite(Cur, GET_INFO)
                 /\ pc' = "getInfo.read"
                 /\ UNCHANGED <<r, caller, exc, exitCode, object>>
            ELSE /\ Raise("USBError")
                 /\ UNCHANGED <<relay, report>>
  /\ UNCHANGED <<devices, claimed, released, ctlVars, dev, handle, relays, arg>>

\* What __init__ does with the info getInfo returned: a device with another
\* id is closed and ValueError raised, which enumerateRelays passes over,
\* leaving the object to its finalizer; the device asked for is appended to
\* relays.
InitAfterInfo_noClose(info) ==
  /\ IF IdMatches(info)
       THEN /\ relays' = Append(relays, dev)
            /\ UNCHANGED <<handle, claimed, released, object>>
       ELSE /\ UNCHANGED <<handle, claimed, released>>
            /\ object' = [object EXCEPT ![dev] = "dropped"]
            /\ UNCHANGED relays
  /\ dev' = dev + 1
  /\ pc' = "enumerateRelays"
  /\ caller' = "none"
  /\ trace' = Append(trace, ControlMsg(dev, "getInfo", caller, HID_REQ_TO_HOST,
                                       GET_REPORT, <<>>, REPORT_LEN, TRUE))
  /\ UNCHANGED <<r, exc, exitCode>>

InitAfterInfo(info) ==
  /\ IF IdMatches(info)
       THEN /\ relays' = Append(relays, dev)
            /\ UNCHANGED <<handle, claimed, released, object>>
       ELSE /\ close(dev)
            /\ object' = [object EXCEPT ![dev] = "dropped"]
            /\ UNCHANGED relays
  /\ dev' = dev + 1
  /\ pc' = "enumerateRelays"
  /\ caller' = "none"
  /\ trace' = Append(trace, ControlMsg(dev, "getInfo", caller, HID_REQ_TO_HOST,
                                       GET_REPORT, <<>>, REPORT_LEN, TRUE))
  /\ UNCHANGED <<r, exc, exitCode>>

\* What __str__ does with the info: it goes on to call getPort.
StrAfterInfo ==
  /\ pc' = "getPort.write"
  /\ trace' = trace \o
       << ControlMsg(Cur, "getInfo", caller, HID_REQ_TO_HOST, GET_REPORT, <<>>,
                     REPORT_LEN, TRUE),
          Call("getPort", Cur, "__str__", FALSE) >>
  /\ UNCHANGED <<r, caller, exc, exitCode, dev, objVars, claimed, released>>

\* getInfo: the GET_REPORT read of REPORT_LEN bytes, the decoding of the
\* response and the return to __init__ or __str__.
GetInfoRead ==
  /\ pc = "getInfo.read"
  /\ \E ok \in BOOLEAN :
       IF ~ok
         THEN /\ Outcome(FALSE)
              /\ trace' = Append(trace, ControlMsg(Cur, "getInfo", caller, HID_REQ_TO_HOST,
                                                   GET_REPORT, <<>>, REPORT_LEN, FALSE))
              /\ Raise("USBError")
              /\ UNCHANGED <<dev, handle, relays, claimed, released>>
         ELSE \E n \in ReadLens :
                LET buffer == SubSeq(DeviceReport(Cur), 1, n)
                IN  IF Len(buffer) <= InfoIndex
                      THEN /\ Outcome(FALSE)
                           /\ trace' = Append(trace,
                                  ControlMsg(Cur, "getInfo", caller, HID_REQ_TO_HOST,
                                             GET_REPORT, <<>>, REPORT_LEN, TRUE))
                           /\ Raise("IndexError")
                           /\ UNCHANGED <<dev, handle, relays, claimed, released>>
                      ELSE /\ Outcome(TRUE)
                           /\ IF caller = "__init__"
                                THEN InitAfterInfo(decodeInfo(buffer))
                                ELSE StrAfterInfo
  /\ UNCHANGED <<devices, relay, report, ctlVars, arg>>

\* The end of enumerateRelays' loops: RuntimeWarning when relays is empty,
\* else main calls controlRelays(relays).
EnumerateDone_noRaise ==
  /\ pc = "enumerateRelays"
  /\ dev > Len(devices)
  /\ pc' = "controlRelays"
  /\ r' = 1
  /\ caller' = "controlRelays"
  /\ UNCHANGED <<exc, exitCode, envVars, ctlVars, objVars, dev, arg, trace>>

EnumerateDone ==
  /\ pc = "enumerateRelays"
  /\ dev > Len(devices)
  /\ IF Len(relays) = 0
       THEN /\ Exit(EXIT_FAILED, "RuntimeWarning")
            /\ UNCHANGED <<r, caller>>
       ELSE /\ pc' = "controlRelays"
            /\ r' = 1
            /\ caller' = "controlRelays"
            /\ UNCHANGED <<exc, exitCode>>
  /\ UNCHANGED <<envVars, ctlVars, objVars, dev, arg, trace>>

\* The argument controlRelays gives setPort for on and off.
OnOffArg_constant == TRUE

OnOffArg == (state = relayState.on)

\* The head of controlRelays' loop body for relay r: setPort for on and off,
\* setPort(not getPort()) for toggle, nothing for noChange.
ControlRelay ==
  /\ pc = "controlRelays"
  /\ r <= Len(relays)
  /\ IF state \in {relayState.on, relayState.off}
       THEN /\ arg' = OnOffArg
            /\ pc' = "setPort"
            /\ trace' = Append(trace, Call("setPort", relays[r], "controlRelays", OnOffArg))
       ELSE IF state = relayState.toggle
              THEN /\ pc' = "getPort.write"
                   /\ trace' = Append(trace, Call("getPort", relays[r], "controlRelays", FALSE))
                   /\ UNCHANGED arg
              ELSE /\ pc' = "log.info"
                   /\ UNCHANGED <<arg, trace>>
  /\ UNCHANGED <<envVars, ctlVars, objVars, caller, dev, r, exc, exitCode>>

\* controlRelays has gone through relays: main returns and the process ends
\* with exit code 0.
ControlDone ==
  /\ pc = "controlRelays"
  /\ r > Len(relays)
  /\ pc' = "exit"
  /\ exitCode' = 0
  /\ UNCHANGED <<envVars, ctlVars, objVars, caller, dev, r, arg, exc, trace>>

\* getPort: the SET_REPORT write of GET_PORT.
GetPortWrite_unchecked ==
  /\ pc = "getPort.write"
  /\ \E ok \in BOOLEAN :
       /\ Outcome(ok)
       /\ trace' = Append(trace, ControlMsg(Cur, "getPort", caller, HID_REQ_TO_DEV,
                                            SET_REPORT, GET_PORT, 0, ok))
       /\ IF ok THEN DeviceWrite(Cur, GET_PORT) ELSE UNCHANGED <<relay, report>>
       /\ pc' = "getPort.read"
       /\ UNCHANGED <<r, caller, exc, exitCode, object>>
  /\ UNCHANGED <<devices, claimed, released, ctlVars, dev, handle, relays, arg>>

GetPortWrite ==
  /\ pc = "getPort.write"
  /\ \E ok \in BOOLEAN :
       /\ Outcome(ok)
       /\ trace' = Append(trace, ControlMsg(Cur, "getPort", caller, HID_REQ_TO_DEV,
                                            SET_REPORT, GET_PORT, 0, ok))
       /\ IF ok
            THEN /\ DeviceWrite(Cur, GET_PORT)
                 /\ pc' = "getPort.read"
                 /\ UNCHANGED <<r, caller, exc, exitCode, object>>
            ELSE /\ Raise("USBError")
                 /\ UNCHANGED <<relay, report>>
  /\ UNCHANGED <<devices, claimed, released, ctlVars, dev, handle, relays, arg>>

\* The argument controlRelays gives setPort for toggle, v being the value
\* getPort returned.
ToggleArg_same(v) == v

ToggleArg(v) == ~v

\* What the caller does with the value getPort returned: controlRelays
\* calls setPort with its negation; __str__ returns the string, log.info
\* returns and controlRelays goes on with the next relay.
AfterPort(v) ==
  IF caller = "controlRelays"
    THEN /\ arg' = ToggleArg(v)
         /\ pc' = "setPort"
         /\ trace' = trace \o
              << ControlMsg(Cur, "getPort", caller, HID_REQ_TO_HOST, GET_REPORT, <<>>,
                            REPORT_LEN, TRUE),
                 Return("getPort", Cur, caller, v),
                 Call("setPort", Cur, "controlRelays", ToggleArg(v)) >>
         /\ UNCHANGED <<r, caller>>
    ELSE /\ pc' = "controlRelays"
         /\ r' = r + 1
         /\ caller' = "controlRelays"
         /\ trace' = trace \o
              << ControlMsg(Cur, "getPort", caller, HID_REQ_TO_HOST, GET_REPORT, <<>>,
                            REPORT_LEN, TRUE),
                 Return("getPort", Cur, caller, v) >>
         /\ UNCHANGED arg

\* getPort: the GET_REPORT read of REPORT_LEN bytes, the decoding of the
\* response and the return to controlRelays or __str__.
GetPortRead ==
  /\ pc = "getPort.read"
  /\ \E ok \in BOOLEAN :
       IF ~ok
         THEN /\ Outcome(FALSE)
              /\ trace' = Append(trace, ControlMsg(Cur, "getPort", caller, HID_REQ_TO_HOST,
                                                   GET_REPORT, <<>>, REPORT_LEN, FALSE))
              /\ Raise("USBError")
              /\ UNCHANGED arg
         ELSE \E n \in ReadLens :
                LET buffer == SubSeq(DeviceReport(Cur), 1, n)
                IN  IF Len(buffer) <= PortIndex
                      THEN /\ Outcome(FALSE)
                           /\ trace' = Append(trace,
                                  ControlMsg(Cur, "getPort", caller, HID_REQ_TO_HOST,
                                             GET_REPORT, <<>>, REPORT_LEN, TRUE))
                           /\ Raise("IndexError")
                           /\ UNCHANGED arg
                      ELSE /\ Outcome(TRUE)
                           /\ AfterPort(decodePort(buffer))
                           /\ UNCHANGED <<exc, exitCode, object>>
  /\ UNCHANGED <<envVars, ctlVars, dev, handle, relays>>

\* setPort(state): one SET_REPORT write of SET_PORT_ON or SET_PORT_OFF; the
\* value controlMsg returns is not used by controlRelays.
SetPort ==
  /\ pc = "setPort"
  /\ \E ok \in BOOLEAN :
       LET buffer == IF arg THEN SET_PORT_ON ELSE SET_PORT_OFF
       IN  /\ Outcome(ok)
           /\ trace' = Append(trace, ControlMsg(Cur, "setPort", caller, HID_REQ_TO_DEV,
                                                SET_REPORT, buffer, 0, ok))
           /\ IF ok
                THEN /\ DeviceWrite(Cur, buffer)
                     /\ pc' = "log.info"
                     /\ UNCHANGED <<r, caller, exc, exitCode, object>>
                ELSE /\ Raise("USBError")
                     /\ UNCHANGED <<relay, report>>
  /\ UNCHANGED <<devices, claimed, released, ctlVars, dev, handle, relays, arg>>

\* log.setLevel(verbose) and log.info: the record is made, and r formatted
\* with __str__, only when the level of the logger admits INFO; level 0
\* hands the decision to the root logger, which basicConfig set to NOTSET.
isEnabledForInfo_always == TRUE

isEnabledForInfo == verbose <= INFO

\* log.info(r).  __str__ of a relay that holds a handle starts with getInfo.
LogInfo ==
  /\ pc = "log.info"
  /\ IF isEnabledForInfo
       THEN IF handle[relays[r]]
              THEN /\ pc' = "getInfo.write"
                   /\ caller' = "__str__"
                   /\ trace' = trace \o << Call("__str__", relays[r], "log.info", FALSE),
                                           Call("getInfo", relays[r], "__str__", FALSE) >>
                   /\ UNCHANGED r
              ELSE /\ pc' = "controlRelays"
                   /\ r' = r + 1
                   /\ trace' = Append(trace, Call("__str__", relays[r], "log.info", FALSE))
                   /\ UNCHANGED caller
       ELSE /\ pc' = "controlRelays"
            /\ r' = r + 1
            /\ UNCHANGED <<caller, trace>>
  /\ UNCHANGED <<envVars, ctlVars, objVars, dev, arg, exc, exitCode>>

\* The object of device d awaits its finalizer: nothing refers to it any
\* more (its construction failed, or the program has ended).
Unreachable(d) ==
  \/ object[d] = "dropped"
  \/ object[d] = "live" /\ pc = "exit"

\* __del__ of the mp709 object of device d.  The finalizers of two objects
\* commute (each touches its own device only), so they are taken in the
\* order of the devices.
Del(d) ==
  /\ Unreachable(d)
  /\ \A e \in 1..(d - 1) : ~Unreachable(e)
  /\ object' = [object EXCEPT ![d] = "finalized"]
  /\ IF handle[d]
       THEN close(d)
       ELSE UNCHANGED <<handle, claimed, released>>
  /\ UNCHANGED <<devices, relay, report, faults, ctlVars, pc, caller, dev, relays, r, arg,
                 exc, exitCode, trace>>

Finalize == \E d \in Devs : Del(d)

Next ==
  \/ Getopt
  \/ OptHelp
  \/ OptVersion
  \/ OptState
  \/ OptId
  \/ OptVerbose
  \/ RunMain
  \/ Construct
  \/ GetInfoWrite
  \/ GetInfoRead
  \/ EnumerateDone
  \/ ControlRelay
  \/ ControlDone
  \/ GetPortWrite
  \/ GetPortRead
  \/ SetPort
  \/ LogInfo
  \/ Finalize

Spec == Init /\ [][Next]_vars

\* ------------------------------------------- the decoding of the responses
\* getPort and getInfo called on one open MP709 that answers the GET_REPORT
\* with the bytes of answer, whatever they are: a response of REPORT_LEN
\* bytes or a shorter one (controlMsg is given the size REPORT_LEN and never
\* returns more).
Byte == 0..255

\* The values tried in an info report; ids stay below 2^31.
Families == {0, 9, 255}
Versions == {0, 255, 256, 258, 65535}
Ids == {0, 20, 255, 65536, 16777236, 2147483647}

PortAnswers ==
  { SubSeq(<<GET_PORT[1], b1, b2, 0, 0, 0, 0, 0>>, 1, n) :
      b1 \in Byte, b2 \in Byte, n \in ReadLens }

InfoAnswers ==
  { SubSeq(InfoReport(f, v, i), 1, n) :
      f \in Families, v \in Versions, i \in Ids, n \in ReadLens }

\* The device behind the handle and what it answers the read with.
Answering(a) ==
  [idVendor |-> VENDOR_ID, idProduct |-> PRODUCT_ID, info |-> InfoReport(9, 258, 20),
   answer |-> a]

DecodeInit ==
  /\ \/ /\ pc = "getPort.read"
        /\ devices \in { <<Answering(a)>> : a \in PortAnswers }
        /\ trace = << Call("getPort", 1, "none", FALSE),
                      ControlMsg(1, "getPort", "none", HID_REQ_TO_DEV, SET_REPORT,
                                 GET_PORT, 0, TRUE) >>
        /\ report = <<GET_PORT>>
     \/ /\ pc = "getInfo.read"
        /\ devices \in { <<Answering(a)>> : a \in InfoAnswers }
        /\ trace = << Call("getInfo", 1, "none", FALSE),
                      ControlMsg(1, "getInfo", "none", HID_REQ_TO_DEV, SET_REPORT,
                                 GET_INFO, 0, TRUE) >>
        /\ report = <<GET_INFO>>
  /\ relay = <<FALSE>>
  /\ claimed = <<TRUE>>
  /\ released = <<0>>
  /\ faults = 0
  /\ opt = <<"", "">>
  /\ nopts = 0
  /\ state = relayState.noChange
  /\ id = 0
  /\ verbose = DEFAULT_VERBOSE
  /\ caller = "none"
  /\ dev = 1
  /\ handle = <<TRUE>>
  /\ object = <<"live">>
  /\ relays = <<1>>
  /\ r = 1
  /\ arg = FALSE
  /\ exc = "none"
  /\ exitCode = -1

\* What is left of the method after the read returned buffer: an index past
\* the end of buffer raises IndexError, else the method returns decode(buffer).
AfterRead(op, buffer, last, value) ==
  /\ pc' = "exit"
  /\ IF Len(buffer) <= last
       THEN /\ exc' = "IndexError"
            /\ trace' = Append(trace, ControlMsg(1, op, caller, HID_REQ_TO_HOST,
                                                  GET_REPORT, <<>>, REPORT_LEN, TRUE))
       ELSE /\ exc' = exc
            /\ trace' = trace \o
                 << ControlMsg(1, op, caller, HID_REQ_TO_HOST, GET_REPORT, <<>>,
                               REPORT_LEN, TRUE),
                    Return(op, 1, caller, value) >>
  /\ UNCHANGED <<envVars, ctlVars, objVars, caller, dev, r, arg, exitCode>>

\* getPort from its read on.
getPort ==
  /\ pc = "getPort.read"
  /\ LET buffer == devices[1].answer
     IN  AfterRead("getPort", buffer, PortIndex,
                   IF Len(buffer) > PortIndex THEN decodePort(buffer) ELSE FALSE)

\* getInfo from its read on.
getInfo ==
  /\ pc = "getInfo.read"
  /\ LET buffer == devices[1].answer
     IN  AfterRead("getInfo", buffer, InfoIndex,
                   IF Len(buffer) > InfoIndex THEN decodeInfo(buffer) ELSE FALSE)

DecodeNext == getPort \/ getInfo

DecodeSpec == DecodeInit /\ [][DecodeNext]_vars

\* ------------------------------------------------------------- properties
\* relaysControl.main has returned: enumerateRelays and controlRelays ran
\* to their ends.
RunReturned == pc = "exit" /\ exitCode = 0 /\ exc = "none"

\* Device d is in the list enumerateRelays builds.
Retained(d) == \E i \in DOMAIN relays : relays[i] = d

\* Device d carries the vendor and product id of the MP709.
IsMP709(d) ==
  devices[d].idVendor = 5824 /\ devices[d].idProduct = 1503

\* The id in the info report of device d: bytes 4..7, most significant first.
ReportedId(d) ==
  LET b == devices[d].info
  IN  ((b[5] * 256 + b[6]) * 256 + b[7]) * 256 + b[8]

\* enumerateRelays has examined device d: the constructor has returned or
\* raised ValueError for it.
Examined(d) == d < dev

\* enumerateRelays has gone through all devices (and returned relays, or
\* raised RuntimeWarning on an empty list).
Enumerated == r >= 1 \/ exc = "RuntimeWarning"

\* C1: an MP709 that enumerateRelays has examined is in relays if and only
\* if no id is asked for (id = 0) or the id of its info report is the id
\* asked for; so it is for every MP709 when enumerateRelays returns.
C1_IdFilter ==
  /\ \A d \in Devs :
       Examined(d) /\ IsMP709(d) => (Retained(d) <=> (id = 0 \/ ReportedId(d) = id))
  /\ Enumerated => \A d \in Devs : Examined(d)

\* C1 witness: with id 20 asked for, enumerateRelays has kept one MP709 and
\* turned down another whose id differs.
C1_Witness ==
  /\ pc = "controlRelays"
  /\ id = 20
  /\ \E d, e \in Devs :
       /\ IsMP709(d) /\ Retained(d) /\ ReportedId(d) = 20
       /\ IsMP709(e) /\ ~Retained(e) /\ ReportedId(e) = 16777236

\* C2: a device with another vendor id or another product id is never in
\* relays, whatever id is asked for, and its object never holds a handle or
\* outlives the constructor.
C2_IdentityFilter ==
  \A d \in Devs :
    (devices[d].idVendor # 5824 \/ devices[d].idProduct # 1503)
      => /\ ~Retained(d)
         /\ ~handle[d]
         /\ ~claimed[d]
         /\ object[d] \in {"none", "finalized"}
         /\ Examined(d) => object[d] = "finalized"

\* C2 witness: with an id asked for, enumerateRelays has turned down a
\* device with a foreign vendor id and one with a foreign product id.
C2_Witness ==
  /\ exc = "RuntimeWarning"
  /\ id # 0
  /\ \E d, e \in Devs :
       /\ devices[d].idVendor # 5824 /\ devices[d].idProduct = 1503
       /\ devices[e].idVendor = 5824 /\ devices[e].idProduct # 1503

\* The places in trace of the setPort(v) calls on device d.
SetPortCalls(d, v) ==
  { p \in DOMAIN trace :
      trace[p].op = "setPort" /\ trace[p].dev = d /\ trace[p].arg = v }

\* The places in trace of the values getPort returned to from for device d.
GetPortReturns(d, from) ==
  { p \in DOMAIN trace :
      /\ trace[p].op = "return" /\ trace[p].of = "getPort"
      /\ trace[p].dev = d /\ trace[p].caller = from }

\* The places in trace of the calls of method op on device d.
Calls(d, op) == { p \in DOMAIN trace : trace[p].op = op /\ trace[p].dev = d }

\* The places in trace of the control transfers on device d issued under
\* from (__init__, controlRelays or __str__).
Xfers(d, from) ==
  { p \in DOMAIN trace :
      IsXfer(trace[p]) /\ trace[p].dev = d /\ trace[p].caller = from }

\* The places in trace of the SET_REPORT writes of a 0xE7 command (SET_PORT_ON
\* or SET_PORT_OFF) to device d.
SetPortWrites(d) ==
  { p \in DOMAIN trace :
      /\ IsXfer(trace[p]) /\ trace[p].dev = d
      /\ trace[p].request = 9 /\ trace[p].buffer[1] = 231 }

\* C3: under toggle, getPort returns at most once to controlRelays for a
\* relay; once it has returned true there is exactly one setPort(false) call
\* and no setPort(true) call on that relay, once it has returned false
\* exactly one setPort(true) and no setPort(false); the one write that
\* follows carries the matching command, and no relay gets a setPort call
\* before its getPort has returned.
C3_TogglePolicy ==
  state = relayState.toggle =>
    \A d \in Devs :
      /\ Cardinality(GetPortReturns(d, "controlRelays")) <= 1
      /\ \A p \in GetPortReturns(d, "controlRelays") :
           /\ Cardinality(SetPortCalls(d, ~trace[p].val)) = 1
           /\ SetPortCalls(d, trace[p].val) = {}
           /\ \A q \in SetPortCalls(d, ~trace[p].val) : q > p
           /\ \A q \in SetPortWrites(d) :
                trace[q].buffer = IF trace[p].val THEN <<231, 25, 0, 0, 0, 0, 0>>
                                                  ELSE <<231, 0, 0, 0, 0, 0, 0>>
      /\ Cardinality(SetPortWrites(d)) <= 1
      /\ GetPortReturns(d, "controlRelays") = {}
           => SetPortCalls(d, TRUE) \cup SetPortCalls(d, FALSE) = {}

\* C3 witness: a toggle run has ended normally after getPort returned true
\* for one relay and false for another.
C3_Witness ==
  /\ state = relayState.toggle
  /\ RunReturned
  /\ \E d, e \in Devs :
       /\ \E p \in GetPortReturns(d, "controlRelays") : trace[p].val
       /\ \E p \in GetPortReturns(e, "controlRelays") : ~trace[p].val

\* No setPort or getPort call and no transfer of theirs is in trace.
NoPortCalls ==
  \A p \in DOMAIN trace :
    /\ trace[p].op \notin {"setPort", "getPort"}
    /\ IsXfer(trace[p]) => trace[p].by \notin {"setPort", "getPort"}

\* main has run enumerateRelays to its end or to an exception, every device
\* having been tried, and no device was kept.
NoneIdentified ==
  pc = "exit" /\ dev >= 1 /\ dev >= Len(devices) /\ relays = <<>>

\* C4 as claimed: when no descriptor has identified successfully, the run
\* has failed with RuntimeWarning (NoDeviceFound) and made no setPort or
\* getPort call.
C4_Original ==
  NoneIdentified => exc = "RuntimeWarning" /\ exitCode = 3 /\ NoPortCalls

\* C4 amended: when enumerateRelays has turned down every descriptor (wrong
\* identity or another id), the run fails with RuntimeWarning; when no
\* descriptor was kept because open or the getInfo exchange failed on the
\* last one, the run fails with that error instead; either way the process
\* exits with 3, and as long as relays is empty there is no setPort and no
\* getPort call.
C4_EmptyDiscovery ==
  /\ NoneIdentified /\ dev > Len(devices)
       => exc = "RuntimeWarning" /\ exitCode = 3
  /\ NoneIdentified /\ dev = Len(devices)
       => exc \in {"USBError", "IndexError"} /\ exitCode = 3
  /\ relays = <<>> => NoPortCalls

\* C4 witness: a run with a state asked for has failed with RuntimeWarning
\* after the id filter turned down an MP709.
C4_Witness ==
  /\ exc = "RuntimeWarning"
  /\ state = relayState.toggle
  /\ \E d \in Devs : IsMP709(d) /\ Xfers(d, "__init__") # {}

\* Device d passes the identity filter and the id filter.
Selected(d) == IsMP709(d) /\ (id = 0 \/ ReportedId(d) = id)

\* C5: under on (off), setPort(false) (setPort(true)) is never called; a
\* device that is not an MP709 with the id asked for gets no setPort call
\* and no command write; every other device gets at most one setPort call,
\* and exactly one, followed by one write of SET_PORT_ON (SET_PORT_OFF),
\* when the run has ended normally.
C5_OnOffFilter ==
  state \in {relayState.on, relayState.off} =>
    \A d \in Devs :
      LET want == (state = relayState.on)
      IN  /\ SetPortCalls(d, ~want) = {}
          /\ Cardinality(SetPortCalls(d, want)) <= 1
          /\ Cardinality(SetPortWrites(d)) <= Cardinality(SetPortCalls(d, want))
          /\ \A q \in SetPortWrites(d) :
               trace[q].buffer = IF want THEN <<231, 0, 0, 0, 0, 0, 0>>
                                         ELSE <<231, 25, 0, 0, 0, 0, 0>>
          /\ ~Selected(d) => SetPortCalls(d, want) = {}
          /\ RunReturned /\ Selected(d)
               => Cardinality(SetPortCalls(d, want)) = 1 /\ Cardinality(SetPortWrites(d)) = 1

\* C5 witness: run(on, 20) over the MP709s with the ids 10 and 20 has ended
\* normally with one setPort(true) call on the device with id 20.
C5_Witness ==
  /\ state = relayState.on /\ id = 20 /\ RunReturned
  /\ \E d, e \in Devs :
       /\ IsMP709(d) /\ ReportedId(d) = 20 /\ Cardinality(SetPortCalls(d, TRUE)) = 1
       /\ IsMP709(e) /\ ReportedId(e) = 10

\* A noChange run without id over a list with exactly one MP709 has ended
\* normally.
NoChangeRun ==
  /\ RunReturned /\ state = relayState.noChange /\ id = 0
  /\ Cardinality({ d \in Devs : IsMP709(d) }) = 1

\* C6 as claimed: the run has sent no SET_PORT_ON and no SET_PORT_OFF and
\* has called __str__ exactly once, whatever the verbosity.
C6_Original ==
  NoChangeRun =>
    \A d \in Devs :
      IsMP709(d) => SetPortWrites(d) = {} /\ Cardinality(Calls(d, "__str__")) = 1

\* C6 amended: the run has sent no SET_PORT_ON and no SET_PORT_OFF; it has
\* called __str__ exactly once, getInfo first and then getPort, when the
\* verbosity was raised at least once (verbose <= 20), and not at all at
\* the default verbosity (verbose = 30).
C6_NoChange ==
  NoChangeRun =>
    \A d \in Devs :
      IsMP709(d) =>
        /\ SetPortWrites(d) = {}
        /\ SetPortCalls(d, TRUE) \cup SetPortCalls(d, FALSE) = {}
        /\ Cardinality(Calls(d, "__str__")) = IF verbose <= 20 THEN 1 ELSE 0
        /\ \A p \in Calls(d, "__str__") :
             /\ trace[p + 1].op = "getInfo" /\ trace[p + 1].dev = d
             /\ \A q \in Calls(d, "getPort") : q > p + 1

\* C6 witness: such a run has ended at a raised verbosity with __str__
\* having gone through getInfo and getPort.
C6_Witness ==
  /\ NoChangeRun
  /\ verbose <= 20
  /\ \E d \in Devs : Calls(d, "__str__") # {} /\ GetPortReturns(d, "__str__") # {}

\* No device has been enumerated, opened, claimed or sent a transfer.
Untouched ==
  /\ dev = 0
  /\ trace = <<>>
  /\ relays = <<>>
  /\ \A d \in Devs : ~handle[d] /\ ~claimed[d] /\ object[d] = "none"

\* C7: the step of main that processes -s with a string outside on, off,
\* noChange, toggle ends the program with KeyError and exit code 3, leaves
\* relaysControl.state as it was and happens with no device enumerated,
\* opened or sent a transfer; and none is afterwards.
C7_UnknownState ==
  /\ [][ (nopts' = nopts + 1 /\ opt'[1] = "-s"
            /\ opt'[2] \notin {"on", "off", "noChange", "toggle"})
         => /\ exc' = "KeyError" /\ exitCode' = 3 /\ pc' = "exit"
            /\ state' = state
            /\ Untouched /\ Untouched' ]_vars
  /\ [](exc = "KeyError" => Untouched /\ pc = "exit")

\* C7 witness: -s on followed by -s blink: the program has ended with
\* KeyError, the state still on.
C7_Witness ==
  /\ exc = "KeyError"
  /\ opt = <<"-s", "blink">>
  /\ state = relayState.on

\* The number of control transfers controlRelays may issue on a relay for
\* the state asked for, as claimed and as the code has it.
ClaimedBudget ==
  IF state = relayState.toggle THEN 2
  ELSE IF state \in {relayState.on, relayState.off} THEN 1 ELSE 0

ActionBudget ==
  IF state = relayState.toggle THEN 3
  ELSE IF state \in {relayState.on, relayState.off} THEN 1 ELSE 0

\* C8 as claimed: all the control transfers of one controlRelays pass on a
\* device are at most two under toggle, one under on and off, none under
\* noChange.
C8_Original ==
  \A d \in Devs :
    Cardinality(Xfers(d, "controlRelays") \cup Xfers(d, "__str__")) <= ClaimedBudget

\* C8 amended: the per-relay action of controlRelays issues at most three
\* control transfers under toggle (two of getPort, one of setPort), at most
\* one under on and off and none under noChange; the status report that
\* follows issues none at the default verbosity and at most four (two of
\* getInfo, two of getPort) when verbose <= 20; a normal toggle run issues
\* exactly three action transfers on every relay.
C8_TransferBudget ==
  \A d \in Devs :
    /\ Cardinality(Xfers(d, "controlRelays")) <= ActionBudget
    /\ Cardinality(Xfers(d, "__str__")) <= IF verbose <= 20 THEN 4 ELSE 0
    /\ RunReturned /\ Retained(d) => Cardinality(Xfers(d, "controlRelays")) = ActionBudget

\* C8 witness: a toggle run at raised verbosity has ended normally with
\* three action transfers and four status transfers on a relay.
C8_Witness ==
  /\ RunReturned
  /\ state = relayState.toggle
  /\ \E d \in Devs :
       /\ Cardinality(Xfers(d, "controlRelays")) = 3
       /\ Cardinality(Xfers(d, "__str__")) = 4

\* Event e is a SET_REPORT feature write of buffer to device d.
IsWrite(e, d, buffer) ==
  /\ IsXfer(e) /\ e.dev = d
  /\ e.requestType = 33 /\ e.request = 9 /\ e.value = 768
  /\ e.buffer = buffer

\* Event e is a GET_REPORT feature read of 8 bytes from device d.
IsRead(e, d) ==
  /\ IsXfer(e) /\ e.dev = d
  /\ e.requestType = 161 /\ e.request = 1 /\ e.value = 768
  /\ e.size = 8

Idx(d) == IF Retained(d) THEN CHOOSE i \in DOMAIN relays : relays[i] = d ELSE 0

\* The places in trace of the transfers that failed inside controlRelays
\* (in the per-relay action or in the status report).
FailedInApply ==
  { p \in DOMAIN trace :
      /\ IsXfer(trace[p]) /\ ~trace[p].ok
      /\ trace[p].caller \in {"controlRelays", "__str__"} }

Returns(op) ==
  { p \in DOMAIN trace : trace[p].op = "return" /\ trace[p].of = op }

\* The response the device of the return at place p answered with.
Answer(p) == devices[trace[p].dev].answer

\* C11: whatever the response, getPort returns true if and only if its
\* byte 1 and byte 2 are both 0x00; it returns false for every other pair,
\* such as 0x19 0x19, and whenever the two bytes differ.
C11_PortDecoding ==
  \A p \in Returns("getPort") :
    /\ trace[p].val \in BOOLEAN
    /\ trace[p].val <=> (Answer(p)[2] = 0 /\ Answer(p)[3] = 0)
    /\ Answer(p)[2] = 25 /\ Answer(p)[3] = 25 => ~trace[p].val
    /\ Answer(p)[2] # Answer(p)[3] => ~trace[p].val

\* C11 witness: getPort has returned false for a full response whose byte 1
\* is 0x00 and whose byte 2 is 0x19.
C11_Witness ==
  \E p \in Returns("getPort") :
    /\ Len(Answer(p)) = 8
    /\ Answer(p)[2] = 0 /\ Answer(p)[3] = 25
    /\ ~trace[p].val

\* C12: getInfo decodes the 8-byte response that carries family f in byte 1,
\* version v in bytes 2..3 low byte first and id i in bytes 4..7 most
\* significant byte first to exactly family f, version v and id i.
C12_InfoRoundTrip ==
  \A p \in Returns("getInfo") :
    \A f \in Families, v \in Versions, i \in Ids :
      Answer(p) = <<0, f, v % 256, v \div 256, (i \div 16777216) % 256,
                    (i \div 65536) % 256, (i \div 256) % 256, i % 256>>
        => trace[p].val = [family |-> f, version |-> v, id |-> i]

\* C12 witness: getInfo has returned family 9, version 258 (bytes 02 01)
\* and id 16777236 (bytes 01 00 00 14).
C12_Witness ==
  \E p \in Returns("getInfo") :
    /\ Answer(p) = <<0, 9, 2, 1, 1, 0, 0, 20>>
    /\ trace[p].val = [family |-> 9, version |-> 258, id |-> 16777236]

\* C13 as claimed: when the response is not exactly 8 bytes long, getInfo
\* and getPort have failed and returned no decoded value.
C13_Original ==
  pc = "exit" /\ Len(devices[1].answer) # 8
    => exc # "none" /\ Returns("getPort") \cup Returns("getInfo") = {}

\* close() has run on the object of device d.
Closed(d) == released[d] >= 1

\* C14: releaseInterface is issued at most once on a device, and only on a
\* device whose object obtained a handle in open; once close() has run the
\* object holds no handle and the interface is not claimed, so the close()
\* of a later finalization finds no handle and issues nothing; a finalized
\* object holds no handle.
C14_ReleaseOnce ==
  \A d \in Devs :
    /\ released[d] <= 1
    /\ Closed(d) => ~handle[d] /\ ~claimed[d] /\ object[d] \in {"dropped", "finalized"}
    /\ Closed(d) => devices[d].idVendor = 5824 /\ devices[d].idProduct = 1503
    /\ object[d] = "finalized" => ~handle[d] /\ ~claimed[d]

\* C14 witness: __init__ closed the object of a device with another id, and
\* the object has been finalized since: releaseInterface was issued once.
C14_Witness ==
  \E d \in Devs :
    /\ id # 0 /\ ReportedId(d) # id
    /\ Xfers(d, "__init__") # {}
    /\ object[d] = "finalized"
    /\ released[d] = 1

\* open() has returned for the object of device d: __init__ went on to
\* getInfo, or returned and the object was appended to relays.
Opened(d) == Retained(d) \/ Xfers(d, "__init__") # {}

\* C15 as claimed: when the run has ended, normally or with an exception,
\* close() has run on every object that opened its device: it holds no
\* handle and the interface is not claimed.
C15_Original ==
  pc = "exit" => \A d \in Devs : Opened(d) => ~handle[d] /\ ~claimed[d]

\* C16 as claimed: the process exits with 0 on a normal run, on --help and
\* on --version, with 2 on an unknown option and with 3 on any failure,
\* RuntimeWarning (no relay found) included.
C16_Original ==
  pc = "exit" =>
    /\ exc = "none" => exitCode = 0
    /\ exc = "SystemExit" /\ opt[1] \in {"-h", "-V"} => exitCode = 0
    /\ exc = "GetoptError" => exitCode = 2
    /\ exc \in {"RuntimeWarning", "USBError", "IndexError", "KeyError", "ValueError"}
         => exitCode = 3

\* C17: an examined device is claimed by this process exactly when it is in
\* relays, as long as the program runs: a device with a foreign vendor or
\* product id was never opened or claimed and has no transfer in trace, and
\* an MP709 with another id than the one asked for was closed by __init__
\* (releaseInterface issued once) before the next device was examined.  So
\* when enumerateRelays has returned, the claimed devices are those of relays.
C17_Ownership ==
  pc # "exit" =>
    /\ \A d \in Devs : Examined(d) => (claimed[d] <=> Retained(d))
    /\ \A d \in Devs : Examined(d) => (handle[d] <=> Retained(d))
    /\ \A d \in Devs :
         (devices[d].idVendor # 5824 \/ devices[d].idProduct # 1503)
           => /\ ~claimed[d] /\ released[d] = 0
              /\ \A p \in DOMAIN trace : trace[p].dev # d
    /\ \A d \in Devs :
         Examined(d) /\ IsMP709(d) /\ id # 0 /\ ReportedId(d) # id
           => ~claimed[d] /\ released[d] = 1
    /\ r >= 1 => { d \in Devs : claimed[d] } = { relays[i] : i \in DOMAIN relays }

\* C17 witness: enumerateRelays has returned the MP709 with the id asked
\* for, which is claimed, after turning down and releasing another.
C17_Witness ==
  /\ pc = "controlRelays" /\ r = 1
  /\ \E d, e \in Devs :
       /\ d < e
       /\ IsMP709(d) /\ ~Retained(d) /\ ~claimed[d] /\ released[d] = 1
       /\ IsMP709(e) /\ Retained(e) /\ claimed[e]

\* C18: relays lists the devices kept in the order of enumeration, and in
\* trace the events of controlRelays (calls, transfers, returns) come relay
\* by relay in the order of relays: none on a relay after one on a later
\* relay.
C18_Sequential ==
  /\ \A i, j \in DOMAIN relays : i < j => relays[i] < relays[j]
  /\ \A p \in 1..(Len(trace) - 1) :
       trace[p].caller # "__init__"
         => /\ trace[p + 1].caller # "__init__"
            /\ Idx(trace[p].dev) >= 1
            /\ Idx(trace[p].dev) <= Idx(trace[p + 1].dev)

\* C18 witness: a run over two relays has ended normally with transfers of
\* controlRelays on both.
C18_Witness ==
  /\ RunReturned
  /\ Len(relays) = 2
  /\ Xfers(relays[1], "controlRelays") # {}
  /\ Xfers(relays[2], "controlRelays") # {}

\* The construction of the object of device d failed with an error other
\* than ValueError: a transfer of the getInfo exchange of the id filter
\* failed, or the object is gone without enumerateRelays having moved on to
\* the next device (open raised, or the response was too short to decode).
FailedInDiscover(d) ==
  \/ \E p \in Xfers(d, "__init__") : ~trace[p].ok
  \/ /\ IsMP709(d) /\ d = dev
     /\ object[d] \in {"dropped", "finalized"}

\* C19: once open or the getInfo exchange of __init__ has failed on an MP709
\* with an error other than ValueError, the program has ended with that
\* error and exit code 3; controlRelays was never started, whatever relays
\* held by then, and trace holds no call and no transfer of controlRelays and
\* none on a later device.
C19_DiscoverAborts ==
  \A d \in Devs :
    FailedInDiscover(d) =>
      /\ pc = "exit" /\ exitCode = 3
      /\ exc \in {"USBError", "IndexError"}
      /\ r = 0 /\ dev = d
      /\ \A p \in DOMAIN trace : trace[p].caller = "__init__" /\ trace[p].dev <= d
      /\ \A p \in DOMAIN trace : trace[p].op \notin {"setPort", "getPort"}

\* C19 witness: with the first MP709 kept, a transfer of the getInfo
\* exchange failed on the second and the program has ended.
C19_Witness ==
  /\ pc = "exit"
  /\ relays = <<1>>
  /\ \E p \in Xfers(2, "__init__") : ~trace[p].ok

\* C20 as claimed: after a transfer has failed on a relay during
\* controlRelays, in the action or in the status report, trace holds no
\* later transfer on a later relay, and the later relays are in the state
\* they started in (no SET_PORT write reached them).
C20_Original ==
  \A p \in FailedInApply :
    /\ \A q \in DOMAIN trace :
         q > p /\ IsXfer(trace[q]) => Idx(trace[q].dev) <= Idx(trace[p].dev)
    /\ \A i \in DOMAIN relays :
         i > Idx(trace[p].dev) => SetPortWrites(relays[i]) = {}

====
